---- MODULE Spec2Model ----
(***************************************************************************)
(* OAuth2 authorization-code subsystem of the Social Suit frontend         *)
(* (frontend/lib/oauth.ts) and the callback page that drives it            *)
(* (frontend/pages/auth/callback.tsx).                                     *)
(*                                                                         *)
(* The model covers executions in the browser (window is defined): every   *)
(* caller of the library is client-side code.  A value of type             *)
(* `string | null | undefined` is an option: Null for null/undefined,      *)
(* Some(s) for the string s.                                               *)
(***************************************************************************)
EXTENDS Integers, Sequences, FiniteSets, TLC

Null == <<>>
Some(v) == <<v>>
Val(o) == o[1]

\* JavaScript truthiness of an optional string: null, undefined and "" are falsy.
Truthy(o) == o # Null /\ Val(o) # ""

(***************************************************************************)
(* Bounds of the model.                                                    *)
(***************************************************************************)
NumTokens == 2
NumRedirects == 2

Tokens == {"tok" \o ToString(i) : i \in 1..NumTokens}
Redirects == {"/r" \o ToString(i) : i \in 1..NumRedirects}

(***************************************************************************)
(* Platform identifiers and the registry.                                  *)
(***************************************************************************)
TWITTER == "twitter"
FACEBOOK == "facebook"
INSTAGRAM == "instagram"
LINKEDIN == "linkedin"
TIKTOK == "tiktok"
YOUTUBE == "youtube"

Platform == {TWITTER, FACEBOOK, INSTAGRAM, LINKEDIN, TIKTOK, YOUTUBE}

\* A string that is no key of the registry (the type is not enforced at run time).
NotARealPlatform == "not-a-real-platform"

OAUTH_CONFIGS ==
  [p \in Platform |->
     CASE p = TWITTER ->
            [authUrl |-> "https://twitter.com/i/oauth2/authorize",
             scope |-> <<"tweet.read", "tweet.write", "users.read", "offline.access">>]
       [] p = FACEBOOK ->
            [authUrl |-> "https://www.facebook.com/v18.0/dialog/oauth",
             scope |-> <<"pages_manage_posts", "pages_read_engagement",
                         "pages_show_list", "publish_to_groups">>]
       [] p = INSTAGRAM ->
            [authUrl |-> "https://api.instagram.com/oauth/authorize",
             scope |-> <<"user_profile", "user_media", "instagram_basic",
                         "instagram_content_publish">>]
       [] p = LINKEDIN ->
            [authUrl |-> "https://www.linkedin.com/oauth/v2/authorization",
             scope |-> <<"r_liteprofile", "r_emailaddress", "w_member_social",
                         "rw_organization_admin">>]
       [] p = TIKTOK ->
            [authUrl |-> "https://www.tiktok.com/auth/authorize/",
             scope |-> <<"user.info.basic", "video.list", "video.upload">>]
       [] p = YOUTUBE ->
            [authUrl |-> "https://accounts.google.com/o/oauth2/v2/auth",
             scope |-> <<"https://www.googleapis.com/auth/youtube.upload",
                         "https://www.googleapis.com/auth/youtube.readonly">>]]

(***************************************************************************)
(* OAuthStateManager: the Session State Store, three sessionStorage keys.  *)
(***************************************************************************)
STATE_KEY == "oauth_state"
PLATFORM_KEY == "oauth_platform"
REDIRECT_KEY == "oauth_redirect"

StorageKeys == {STATE_KEY, PLATFORM_KEY, REDIRECT_KEY}

EmptyStorage == [k \in StorageKeys |-> Null]

setItem(ss, key, value) == [ss EXCEPT ![key] = Some(value)]
getItem(ss, key) == ss[key]
removeItem(ss, key) == [ss EXCEPT ![key] = Null]

\* The outcomes of Math.random().toString(36).substring(2, 15) twice, concatenated.
generateState == Tokens

MaxFractionDigits == 14

RECURSIVE Digits(_)
Digits(n) == IF n = 0 THEN "" ELSE "k" \o Digits(n - 1)

\* The outcomes of Math.random().toString(36): "0" for 0, otherwise "0."
\* followed by the base-36 digits of the fraction.
randomToString36 == {"0"} \cup {"0." \o Digits(n) : n \in 1..MaxFractionDigits}

\* String.prototype.substring(start, end), 0 <= start <= end.
substring(s, start, end) ==
  IF start >= Len(s) THEN ""
  ELSE SubSeq(s, start + 1, IF end < Len(s) THEN end ELSE Len(s))

\* The token generateState returns when the two calls of
\* Math.random().toString(36) yield r1 and r2.
generateStateOf(r1, r2) == substring(r1, 2, 15) \o substring(r2, 2, 15)

saveState_KeepRedirect(ss, platform, state, redirectTo) ==
  setItem(setItem(ss, STATE_KEY, state), PLATFORM_KEY, platform)

saveState_KeepFirst(ss, platform, state, redirectTo) ==
  IF getItem(ss, STATE_KEY) # Null
    THEN ss
    ELSE LET s1 == setItem(ss, STATE_KEY, state)
             s2 == setItem(s1, PLATFORM_KEY, platform)
         IN  IF Truthy(redirectTo) THEN setItem(s2, REDIRECT_KEY, Val(redirectTo)) ELSE s2

saveState(ss, platform, state, redirectTo) ==
  LET s1 == setItem(ss, STATE_KEY, state)
      s2 == setItem(s1, PLATFORM_KEY, platform)
  IN  IF Truthy(redirectTo) THEN setItem(s2, REDIRECT_KEY, Val(redirectTo)) ELSE s2

clearState_KeepToken(ss) ==
  removeItem(removeItem(ss, PLATFORM_KEY), REDIRECT_KEY)

clearState(ss) ==
  removeItem(removeItem(removeItem(ss, STATE_KEY), PLATFORM_KEY), REDIRECT_KEY)

validateState_NoCleanup(ss, receivedState) ==
  [ret |-> [isValid |-> getItem(ss, STATE_KEY) = Some(receivedState),
            platform |-> getItem(ss, PLATFORM_KEY),
            redirectTo |-> getItem(ss, REDIRECT_KEY)],
   ss |-> ss]

validateState_ClearAlways(ss, receivedState) ==
  [ret |-> [isValid |-> getItem(ss, STATE_KEY) = Some(receivedState),
            platform |-> getItem(ss, PLATFORM_KEY),
            redirectTo |-> getItem(ss, REDIRECT_KEY)],
   ss |-> clearState(ss)]

validateState_NullMatchesEmpty(ss, receivedState) ==
  LET savedState == IF getItem(ss, STATE_KEY) = Null THEN Some("")
                    ELSE getItem(ss, STATE_KEY)
      isValid == savedState = Some(receivedState)
  IN  [ret |-> [isValid |-> isValid, platform |-> getItem(ss, PLATFORM_KEY),
                redirectTo |-> getItem(ss, REDIRECT_KEY)],
       ss |-> IF isValid THEN clearState(ss) ELSE ss]

\* receivedState is a string; the result and the store after the call.
validateState(ss, receivedState) ==
  LET savedState == getItem(ss, STATE_KEY)
      platform == getItem(ss, PLATFORM_KEY)
      redirectTo == getItem(ss, REDIRECT_KEY)
      isValid == savedState = Some(receivedState)
  IN  [ret |-> [isValid |-> isValid, platform |-> platform, redirectTo |-> redirectTo],
       ss |-> IF isValid THEN clearState(ss) ELSE ss]

(***************************************************************************)
(* OAuthUrlBuilder.  A URL is its endpoint and the ordered list of         *)
(* name/value pairs URLSearchParams holds.                                 *)
(***************************************************************************)
NumChallenges == 1

\* The outcomes of generateCodeChallenge (base64url of a random string).
generateCodeChallenge == {"challenge" \o ToString(i) : i \in 1..NumChallenges}

RECURSIVE join(_, _)
join(list, sep) ==
  IF list = <<>> THEN ""
  ELSE IF Len(list) = 1 THEN list[1]
  ELSE list[1] \o sep \o join(Tail(list), sep)

append(params, name, value) == Append(params, <<name, value>>)

\* URLSearchParams.get: the first value of the name, or null.
RECURSIVE get(_, _)
get(params, name) ==
  IF params = <<>> THEN Null
  ELSE IF params[1][1] = name THEN Some(params[1][2])
  ELSE get(Tail(params), name)

Threw(message) == [threw |-> TRUE, error |-> message]

buildAuthUrl_PkceForAll(platform, config, freshState, challenge) ==
  IF platform \notin DOMAIN OAUTH_CONFIGS
    THEN Threw("OAuth configuration not found for platform: " \o platform)
    ELSE [threw |-> FALSE,
          url |-> [base |-> OAUTH_CONFIGS[platform].authUrl,
                   params |-> << <<"client_id", config.clientId>>,
                                 <<"redirect_uri", config.redirectUri>>,
                                 <<"scope", join(config.scope, " ")>>,
                                 <<"response_type", "code">>,
                                 <<"state", IF Truthy(config.state) THEN Val(config.state)
                                            ELSE freshState>>,
                                 <<"code_challenge_method", "S256">>,
                                 <<"code_challenge", challenge>> >>]]

buildAuthUrl_AlwaysFreshState(platform, config, freshState, challenge) ==
  IF platform \notin DOMAIN OAUTH_CONFIGS
    THEN Threw("OAuth configuration not found for platform: " \o platform)
    ELSE [threw |-> FALSE,
          url |-> [base |-> OAUTH_CONFIGS[platform].authUrl,
                   params |-> << <<"client_id", config.clientId>>,
                                 <<"redirect_uri", config.redirectUri>>,
                                 <<"scope", join(config.scope, " ")>>,
                                 <<"response_type", "code">>,
                                 <<"state", "regenerated">> >>]]

\* config = [clientId, redirectUri, scope, state (optional)]; freshState and
\* challenge are the outcomes of the random source the call may consume.
buildAuthUrl(platform, config, freshState, challenge) ==
  IF platform \notin DOMAIN OAUTH_CONFIGS
    THEN Threw("OAuth configuration not found for platform: " \o platform)
    ELSE
      LET platformConfig == OAUTH_CONFIGS[platform]
          params == << <<"client_id", config.clientId>>,
                       <<"redirect_uri", config.redirectUri>>,
                       <<"scope", join(config.scope, " ")>>,
                       <<"response_type", "code">>,
                       <<"state", IF Truthy(config.state) THEN Val(config.state)
                                                          ELSE freshState>> >>
          specific ==
            CASE platform = TWITTER ->
                   append(append(params, "code_challenge_method", "S256"),
                          "code_challenge", challenge)
              [] platform \in {FACEBOOK, INSTAGRAM} -> append(params, "display", "popup")
              [] platform = LINKEDIN -> params
              [] platform = TIKTOK -> append(params, "response_type", "code")
              [] platform = YOUTUBE ->
                   append(append(params, "access_type", "offline"), "prompt", "consent")
      IN  [threw |-> FALSE,
           url |-> [base |-> platformConfig.authUrl, params |-> specific]]

(***************************************************************************)
(* OAuthFlowManager.                                                       *)
(***************************************************************************)
Origin == "https://app.example"

getClientId_NoCheck(env, platform) ==
  LET clientId == IF platform \in DOMAIN env THEN env[platform] ELSE Null
  IN  [threw |-> FALSE, clientId |-> IF clientId = Null THEN "undefined" ELSE Val(clientId)]

\* env is process.env restricted to the six NEXT_PUBLIC_*_CLIENT_ID entries,
\* keyed by platform; an unset entry is Null.
getClientId(env, platform) ==
  LET clientId == IF platform \in DOMAIN env THEN env[platform] ELSE Null
  IN  IF ~Truthy(clientId)
        THEN Threw("Client ID not configured for platform: " \o platform)
        ELSE [threw |-> FALSE, clientId |-> Val(clientId)]

initiateFlow_StateNotPassed(ss, env, platform, redirectTo, state, challenge) ==
  LET ss1 == saveState(ss, platform, state, redirectTo)
      session == Some([platform |-> platform, state |-> state, redirectTo |-> redirectTo])
      failed(error) == [threw |-> TRUE, error |-> error, ss |-> ss1, href |-> Null,
                        saved |-> session]
  IN  IF platform \notin DOMAIN OAUTH_CONFIGS
        THEN failed("OAuth configuration not found for platform: " \o platform)
      ELSE IF getClientId(env, platform).threw
        THEN failed(getClientId(env, platform).error)
      ELSE [threw |-> FALSE, error |-> "", ss |-> ss1, saved |-> session,
            href |-> Some(buildAuthUrl(platform,
                                       [clientId |-> getClientId(env, platform).clientId,
                                        redirectUri |-> Origin \o "/auth/callback",
                                        scope |-> OAUTH_CONFIGS[platform].scope,
                                        state |-> Null],
                                       "regenerated", challenge).url)]

\* The store after the call, whether it threw, and the URL assigned to
\* window.location.href (Null when the call threw before the assignment).
initiateFlow(ss, env, platform, redirectTo, state, challenge) ==
  LET redirectUri == Origin \o "/auth/callback"
      ss1 == saveState(ss, platform, state, redirectTo)
      session == Some([platform |-> platform, state |-> state, redirectTo |-> redirectTo])
  IN  IF platform \notin DOMAIN OAUTH_CONFIGS
        THEN [threw |-> TRUE,
              error |-> "OAuth configuration not found for platform: " \o platform,
              ss |-> ss1, href |-> Null, saved |-> session]
        ELSE
          LET platformConfig == OAUTH_CONFIGS[platform]
              cid == getClientId(env, platform)
          IN  IF cid.threw
                THEN [threw |-> TRUE, error |-> cid.error, ss |-> ss1, href |-> Null, saved |-> session]
                ELSE
                  LET built == buildAuthUrl(platform,
                                            [clientId |-> cid.clientId,
                                             redirectUri |-> redirectUri,
                                             scope |-> platformConfig.scope,
                                             state |-> Some(state)],
                                            state, challenge)
                  IN  IF built.threw
                        THEN [threw |-> TRUE, error |-> built.error,
                              ss |-> ss1, href |-> Null, saved |-> session]
                        ELSE [threw |-> FALSE, error |-> "",
                              ss |-> ss1, href |-> Some(built.url),
                              saved |-> session]

InvalidStateError == "Invalid OAuth state. This may be a security issue."
MissingCodeError == "Authorization code not received from OAuth provider."

handleCallback_CodeFirst(ss, code, state) ==
  LET validation == validateState(ss, state)
      failure(error) == [success |-> FALSE, platform |-> Null, redirectTo |-> Null,
                         error |-> Some(error)]
  IN  [ret |-> IF ~Truthy(Some(code)) THEN failure(MissingCodeError)
               ELSE IF ~validation.ret.isValid THEN failure(InvalidStateError)
               ELSE [success |-> TRUE, platform |-> validation.ret.platform,
                     redirectTo |-> validation.ret.redirectTo, error |-> Null],
       ss |-> validation.ss,
       validation |-> validation.ret]

handleCallback_CodeBeforeState(ss, code, state) ==
  IF ~Truthy(Some(code))
    THEN [ret |-> [success |-> FALSE, platform |-> Null, redirectTo |-> Null,
                   error |-> Some(MissingCodeError)],
          ss |-> ss,
          validation |-> [isValid |-> FALSE, platform |-> Null, redirectTo |-> Null]]
    ELSE handleCallback_CodeFirst(ss, code, state)

handleCallback_IgnoreState(ss, code, state) ==
  LET validation == validateState(ss, state)
  IN  [ret |-> IF ~Truthy(Some(code))
                 THEN [success |-> FALSE, platform |-> Null, redirectTo |-> Null,
                       error |-> Some(MissingCodeError)]
                 ELSE [success |-> TRUE, platform |-> validation.ret.platform,
                       redirectTo |-> validation.ret.redirectTo, error |-> Null],
       ss |-> validation.ss,
       validation |-> validation.ret]

\* code and state are strings; the CallbackOutcome, the store after the call
\* and the result of the state validation the call made.
handleCallback(ss, code, state) ==
  LET validation == validateState(ss, state)
      failure(error) == [success |-> FALSE, platform |-> Null, redirectTo |-> Null,
                         error |-> Some(error)]
  IN  [ret |-> IF ~validation.ret.isValid THEN failure(InvalidStateError)
               ELSE IF ~Truthy(Some(code)) THEN failure(MissingCodeError)
               ELSE [success |-> TRUE, platform |-> validation.ret.platform,
                     redirectTo |-> validation.ret.redirectTo, error |-> Null],
       ss |-> validation.ss,
       validation |-> validation.ret]

(***************************************************************************)
(* OAuthErrorHandler and PlatformUtils.                                    *)
(***************************************************************************)
parseError_Never(searchParams) == Null

parseError_DropsState(searchParams) ==
  LET error == get(searchParams, "error")
  IN  IF ~Truthy(error) THEN Null
      ELSE Some([error |-> Val(error),
                 error_description |->
                   IF Truthy(get(searchParams, "error_description"))
                     THEN get(searchParams, "error_description") ELSE Null,
                 error_uri |->
                   IF Truthy(get(searchParams, "error_uri"))
                     THEN get(searchParams, "error_uri") ELSE Null,
                 state |-> Null])

parseError(searchParams) ==
  LET error == get(searchParams, "error")
  IN  IF ~Truthy(error) THEN Null
      ELSE Some([error |-> Val(error),
                 error_description |->
                   IF Truthy(get(searchParams, "error_description"))
                     THEN get(searchParams, "error_description") ELSE Null,
                 error_uri |->
                   IF Truthy(get(searchParams, "error_uri"))
                     THEN get(searchParams, "error_uri") ELSE Null,
                 state |->
                   IF Truthy(get(searchParams, "state"))
                     THEN get(searchParams, "state") ELSE Null])

errorMessages ==
  [access_denied |-> "You denied access to your account. Please try again if you want to connect this platform.",
   invalid_request |-> "There was an error with the authorization request. Please try again.",
   unauthorized_client |-> "The application is not authorized to request access tokens.",
   unsupported_response_type |-> "The authorization server does not support this response type.",
   invalid_scope |-> "The requested scope is invalid or unknown.",
   server_error |-> "The authorization server encountered an error. Please try again later.",
   temporarily_unavailable |-> "The authorization server is temporarily unavailable. Please try again later."]

\* errorMessages is an object literal: besides its seven own keys, a lookup
\* finds the members it inherits from Object.prototype.
ObjectPrototypeKeys ==
  {"constructor", "__proto__", "hasOwnProperty", "isPrototypeOf",
   "propertyIsEnumerable", "toLocaleString", "toString", "valueOf",
   "__defineGetter__", "__defineSetter__", "__lookupGetter__", "__lookupSetter__"}

\* The inherited member (a function or an object, truthy and not a string) is
\* represented by the string naming it.
getErrorMessage(error) ==
  IF error.error \in DOMAIN errorMessages THEN errorMessages[error.error]
  ELSE IF error.error \in ObjectPrototypeKeys THEN "Object.prototype." \o error.error
  ELSE IF Truthy(error.error_description) THEN Val(error.error_description)
  ELSE "An unknown error occurred during authorization."

displayNames ==
  [twitter |-> "Twitter", facebook |-> "Facebook", instagram |-> "Instagram",
   linkedin |-> "LinkedIn", tiktok |-> "TikTok", youtube |-> "YouTube"]

getDisplayName(platform) ==
  IF platform \in DOMAIN displayNames THEN displayNames[platform] ELSE platform


(***************************************************************************)
(* The callback page (AuthCallbackPage): the body of its effect, as a      *)
(* function of the store and of the query string of the callback URL.     *)
(* status, message and platform are the setState calls it makes (Null:     *)
(* not set); request is the argument of connectPlatform.mutateAsync.       *)
(***************************************************************************)
CallbackUrl == Origin \o "/auth/callback"

effectHandleCallback(ss, urlParams) ==
  LET oauthError == parseError(urlParams)
      code == get(urlParams, "code")
      state == get(urlParams, "state")
      none == [ss |-> ss, status |-> Null, message |-> Null, platform |-> Null,
               request |-> Null, validation |-> Null]
  IN  IF oauthError # Null
        THEN [none EXCEPT !.status = Some("error"),
                          !.message = Some(getErrorMessage(Val(oauthError)))]
      ELSE IF ~Truthy(code) \/ ~Truthy(state)
        THEN [none EXCEPT !.status = Some("error"),
                          !.message = Some("Missing authorization code or state parameter")]
      ELSE
        LET callbackResult == handleCallback(ss, Val(code), Val(state))
            r == callbackResult.ret
            after == [none EXCEPT !.ss = callbackResult.ss,
                                  !.validation = Some(callbackResult.validation)]
        IN  IF ~r.success
              THEN [after EXCEPT !.status = Some("error"),
                                 !.message = IF Truthy(r.error) THEN r.error
                                             ELSE Some("Authentication failed")]
            ELSE IF ~Truthy(r.platform)
              THEN [after EXCEPT !.status = Some("error"),
                                 !.message = Some("Platform information not found")]
            ELSE [after EXCEPT
                    !.platform = r.platform,
                    !.message = Some("Connecting " \o getDisplayName(Val(r.platform)) \o "..."),
                    !.request = Some([platform |-> Val(r.platform),
                                      authorization_code |-> Val(code),
                                      redirect_uri |-> CallbackUrl])]


(***************************************************************************)
(* The composer page (ComposerPage).  A text is represented by its length  *)
(* and the length of its trimmed form: the page reads nothing else of it.  *)
(***************************************************************************)
Text(length, trimmed) == [length |-> length, trimmed |-> trimmed]

EmptyContent == [text |-> Text(0, 0), platforms |-> <<>>]

includes(list, x) == \E i \in DOMAIN list : list[i] = x

togglePlatform(content, platform) ==
  [content EXCEPT !.platforms =
     IF includes(@, platform) THEN SelectSeq(@, LAMBDA p : p # platform)
     ELSE Append(@, platform)]

getCharacterLimit(platform) ==
  CASE platform = "twitter" -> 280
    [] platform = "facebook" -> 63206
    [] platform = "instagram" -> 2200
    [] platform = "linkedin" -> 3000
    [] platform = "tiktok" -> 2200
    [] platform = "youtube" -> 5000
    [] OTHER -> 280

getMinCharacterLimit_First(content) ==
  IF Len(content.platforms) = 0 THEN 280
  ELSE getCharacterLimit(content.platforms[1])

getMinCharacterLimit(content) ==
  IF Len(content.platforms) = 0 THEN 280
  ELSE LET limits == {getCharacterLimit(content.platforms[i]) :
                        i \in DOMAIN content.platforms}
       IN  CHOOSE m \in limits : \A l \in limits : m <= l

\* The values a render derives from the state.
characterLimit(content) == getMinCharacterLimit(content)
remainingChars(content) == characterLimit(content) - content.text.length
isOverLimit(content) == remainingChars(content) < 0

\* The disabled attribute of the "Publish Now" button.
publishDisabled(c) ==
  c.isPublishing \/ Len(c.content.platforms) = 0 \/ c.content.text.trimmed = 0

\* handlePublish up to its await: the page state and the alert shown.
handlePublish(c) ==
  IF Len(c.content.platforms) = 0
    THEN [composer |-> c, alert |-> Some("Please select at least one platform.")]
  ELSE IF c.content.text.trimmed = 0
    THEN [composer |-> c, alert |-> Some("Please enter some content.")]
  ELSE [composer |-> [c EXCEPT !.isPublishing = TRUE], alert |-> Null]

(***************************************************************************)
(* useOptimisticScheduledPost: its callbacks as functions of the cache     *)
(* entry ['scheduledPosts'].  A post is represented by its id.             *)
(***************************************************************************)
\* The updater onMutate passes to setQueryData.
optimisticUpdate(old, optimisticPost) ==
  IF old = Null
    THEN Some([data |-> <<optimisticPost>>, total |-> 1, page |-> 1, limit |-> 10])
    ELSE Some([Val(old) EXCEPT !.data = <<optimisticPost>> \o @, !.total = @ + 1])

\* onMutate: the cache afterwards and the context it returns.
onMutate(cache, optimisticPost) ==
  [cache |-> optimisticUpdate(cache, optimisticPost),
   context |-> [id |-> optimisticPost, previousPosts |-> cache]]

\* onError: the cache afterwards.  An absent entry was snapshotted as
\* undefined, which is falsy.
onError(cache, context) ==
  IF context.previousPosts # Null THEN context.previousPosts ELSE cache

(***************************************************************************)
(* State.                                                                  *)
(***************************************************************************)
VARIABLES
  sessionStorage,  \* the tab's sessionStorage, restricted to the three keys
  env,             \* process.env: platform -> client identifier or Null
  href,            \* window.location.href: [base, params]
  status,          \* callback page: 'loading' | 'success' | 'error'
  message,         \* callback page: the message shown
  pagePlatform,    \* callback page: the platform state (Null or Some)
  mutation,        \* the connectPlatform mutation in flight (Null or Some(request))
  redirectTimer,   \* the setTimeout of onSuccess is armed
  saved,           \* history: the arguments of the latest saveState call that no
                   \*   clearState and no successful validateState has followed
  superseded,      \* history: the token of the unconsumed session which the
                   \*   latest saveState call replaced
  consumed,        \* history: the tokens a validateState call accepted and no
                   \*   saveState call has stored since
  linked,          \* history: the linking requests the page has issued since
                   \*   the latest saveState call
  last,            \* history: the latest call, its arguments and its result
  composer,        \* composer page: [content |-> [text, platforms], isPublishing]
  queryCache,      \* react-query cache entry ['scheduledPosts'] (Null: absent)
  pending          \* optimistic mutations in flight: what onMutate returned

vars == <<sessionStorage, env, href, status, message, pagePlatform, mutation,
          redirectTimer, saved, superseded, consumed, linked, last,
          composer, queryCache, pending>>

\* The linking requests counted per saved session.
MaxLinked == 2

\* The state no step of the OAuth flow touches.
outside == <<env, composer, queryCache, pending>>

AppUrl == [base |-> Origin \o "/dashboard/connections", params |-> <<>>]

OnApp == href = AppUrl
OnCallback == href.base = CallbackUrl

EnvChoices ==
  { [p \in Platform |-> Some("client-" \o p)],
    [p \in Platform |-> IF p \in {TWITTER, INSTAGRAM, YOUTUBE} THEN Some("client-" \o p)
                        ELSE IF p = TIKTOK THEN Some("") ELSE Null] }

PlatformInputs == Platform \cup {NotARealPlatform}
StateInputs == Tokens \cup {""}
RedirectInputs == {Null} \cup {Some(r) : r \in Redirects}
CodeInputs == {Null, Some("code1")}
ErrorInputs ==
  { Null,
    Some([error |-> "access_denied", error_description |-> Some("The user said no")]),
    Some([error |-> "provider_specific", error_description |-> Some("The user said no")]),
    Some([error |-> "provider_specific", error_description |-> Null]) }

Session(platform, state, redirectTo) ==
  [platform |-> platform, state |-> state, redirectTo |-> redirectTo]

\* pre: the unconsumed session at the time of a call that validates a state.
Call(op, args, ret, pre) == [op |-> op, args |-> args, ret |-> ret, pre |-> pre]

PageInit ==
  /\ status' = "loading"
  /\ message' = "Processing authentication..."
  /\ pagePlatform' = Null
  /\ mutation' = Null
  /\ redirectTimer' = FALSE

PageUnchanged == UNCHANGED <<status, message, pagePlatform, mutation, redirectTimer>>

Init ==
  /\ sessionStorage = EmptyStorage
  /\ env \in EnvChoices
  /\ href = AppUrl
  /\ status = "loading"
  /\ message = "Processing authentication..."
  /\ pagePlatform = Null
  /\ mutation = Null
  /\ redirectTimer = FALSE
  /\ saved = Null
  /\ superseded = Null
  /\ consumed = {}
  /\ linked = 0
  /\ last = Call("init", Null, Null, Null)
  /\ composer = [content |-> EmptyContent, isPublishing |-> FALSE]
  /\ queryCache = Null
  /\ pending = {}

\* History after a saveState call and after a validateState call.
Saved(session) ==
  /\ saved' = Some(session)
  /\ superseded' = IF saved # Null THEN Some(Val(saved).state) ELSE Null
  /\ consumed' = consumed \ {session.state}
  /\ linked' = 0

Validated(receivedState, isValid) ==
  /\ saved' = IF isValid THEN Null ELSE saved
  /\ consumed' = IF isValid THEN consumed \cup {receivedState} ELSE consumed
  /\ UNCHANGED superseded

(***************************************************************************)
(* Calls of the library made by in-app code.                               *)
(***************************************************************************)
SaveState(platform, state, redirectTo) ==
  /\ OnApp
  /\ sessionStorage' = saveState(sessionStorage, platform, state, redirectTo)
  /\ Saved(Session(platform, state, redirectTo))
  /\ last' = Call("saveState", Session(platform, state, redirectTo), Null, Null)
  /\ UNCHANGED <<outside, href>>
  /\ PageUnchanged

ValidateState(receivedState) ==
  /\ OnApp
  /\ \E r \in {validateState(sessionStorage, receivedState)} :
         /\ sessionStorage' = r.ss
         /\ Validated(receivedState, r.ret.isValid)
         /\ last' = Call("validateState", [state |-> receivedState], r.ret, saved)
  /\ UNCHANGED <<outside, href, linked>>
  /\ PageUnchanged

ClearState ==
  /\ OnApp
  /\ sessionStorage' = clearState(sessionStorage)
  /\ saved' = Null
  /\ last' = Call("clearState", Null, Null, saved)
  /\ UNCHANGED <<outside, href, superseded, consumed, linked>>
  /\ PageUnchanged

\* generateCodeChallenge is called on the twitter branch of buildAuthUrl alone:
\* for the other platforms no challenge is drawn and one placeholder stands for it.
CodeChallengeDraws(platform) ==
  IF platform = TWITTER THEN generateCodeChallenge ELSE {""}

InitiateFlow(platform, redirectTo) ==
  /\ OnApp
  /\ \E state \in generateState, challenge \in CodeChallengeDraws(platform) :
       \E r \in {initiateFlow(sessionStorage, env, platform, redirectTo, state, challenge)} :
           /\ sessionStorage' = r.ss
           /\ href' = IF r.href # Null THEN Val(r.href) ELSE href
           /\ IF r.saved # Null THEN Saved(Val(r.saved))
              ELSE UNCHANGED <<saved, superseded, consumed, linked>>
           /\ last' = Call("initiateFlow",
                           [platform |-> platform, redirectTo |-> redirectTo],
                           [threw |-> r.threw, error |-> r.error], Null)
  /\ UNCHANGED outside
  /\ PageUnchanged

HandleCallback(code, state) ==
  /\ OnApp
  /\ \E r \in {handleCallback(sessionStorage, code, state)} :
         /\ sessionStorage' = r.ss
         /\ Validated(state, r.validation.isValid)
         /\ last' = Call("handleCallback", [code |-> code, state |-> state], r.ret, saved)
  /\ UNCHANGED <<outside, href, linked>>
  /\ PageUnchanged

(***************************************************************************)
(* Navigation and the callback page.                                       *)
(***************************************************************************)
Query(code, state, error) ==
  (IF error = Null THEN <<>>
   ELSE << <<"error", Val(error).error>> >>
        \o (IF Val(error).error_description = Null THEN <<>>
            ELSE << <<"error_description", Val(Val(error).error_description)>> >>))
  \o (IF code = Null THEN <<>> ELSE << <<"code", Val(code)>> >>)
  \o (IF state = Null THEN <<>> ELSE << <<"state", Val(state)>> >>)

\* The browser loads the callback URL: sent back by the provider, or by
\* anyone who makes the browser open it.
LoadCallback(code, state, error) ==
  /\ href' = [base |-> CallbackUrl, params |-> Query(code, state, error)]
  /\ PageInit
  /\ last' = Call("loadCallback", Null, Null, Null)
  /\ UNCHANGED <<sessionStorage, outside, saved, superseded, consumed, linked>>

\* The user leaves the provider's page or the callback page for the application.
OpenApp ==
  /\ ~OnApp
  /\ href' = AppUrl
  /\ PageInit
  /\ last' = Call("openApp", Null, Null, Null)
  /\ UNCHANGED <<sessionStorage, outside, saved, superseded, consumed, linked>>

\* One execution of the page's effect (it runs on mount and again whenever
\* connectPlatform changes identity).
Effect ==
  /\ OnCallback
  /\ \E r \in {effectHandleCallback(sessionStorage, href.params)} :
         /\ sessionStorage' = r.ss
         /\ status' = IF r.status # Null THEN Val(r.status) ELSE status
         /\ message' = IF r.message # Null THEN Val(r.message) ELSE message
         /\ pagePlatform' = IF r.platform # Null THEN r.platform ELSE pagePlatform
         /\ mutation' = IF r.request # Null THEN r.request ELSE mutation
         /\ IF r.validation # Null
              THEN Validated(Val(get(href.params, "state")), Val(r.validation).isValid)
            ELSE UNCHANGED <<saved, superseded, consumed>>
         /\ linked' = IF r.request # Null /\ linked < MaxLinked THEN linked + 1
                       ELSE linked
         /\ last' = Call("effect", Null,
                         [request |-> r.request, validation |-> r.validation], saved)
  /\ UNCHANGED <<outside, href, redirectTimer>>

\* The account-linking collaborator confirms: onSuccess of the page runs.
ConnectSuccess ==
  /\ OnCallback
  /\ mutation # Null
  /\ status' = "success"
  /\ message' = "Platform connected successfully!"
  /\ redirectTimer' = TRUE
  /\ mutation' = Null
  /\ last' = Call("connectSuccess", Null, Null, Null)
  /\ UNCHANGED <<sessionStorage, outside, href, pagePlatform, saved, superseded, consumed, linked>>

\* The collaborator reports failure: onError of the page runs, then
\* mutateAsync rejects into the catch block of the effect.
ConnectError(errorMessage) ==
  /\ OnCallback
  /\ mutation # Null
  /\ LET onErrorMessage == IF Truthy(errorMessage) THEN Val(errorMessage)
                           ELSE "Failed to connect platform"
     IN  /\ status' = "error"
         /\ message' = "An unexpected error occurred during authentication"
         /\ last' = Call("connectError", Null, [onError |-> onErrorMessage], Null)
  /\ mutation' = Null
  /\ UNCHANGED <<sessionStorage, outside, href, pagePlatform, redirectTimer,
                 saved, superseded, consumed, linked>>

\* The timer of onSuccess fires: router.push('/dashboard/connections').
RouterPush ==
  /\ OnCallback
  /\ redirectTimer
  /\ href' = AppUrl
  /\ PageInit
  /\ last' = Call("routerPush", Null, Null, Null)
  /\ UNCHANGED <<sessionStorage, outside, saved, superseded, consumed, linked>>

(***************************************************************************)
(* Direct calls of the URL builder, the error handler and generateState.   *)
(***************************************************************************)
ConfigInputs ==
  [clientId : {"client-a", "client-b"},
   redirectUri : {CallbackUrl},
   scope : {<<>>, <<"read">>, <<"read", "write">>, <<"write", "read">>},
   state : {Null, Some("")} \cup {Some(t) : t \in Tokens}]

\* generateState is called by buildAuthUrl only when config.state is falsy.
FreshStateDraws(config) ==
  IF Truthy(config.state) THEN {""} ELSE generateState

OAuthErrorInputs ==
  [error : DOMAIN errorMessages \cup {"provider_specific", "constructor"},
   error_description : {Null, Some("The user said no")}]

\* The parameters a callback query may carry: each absent, empty or set.
QueryInputs ==
  [error : {Null, Some(""), Some("access_denied")},
   error_description : {Null, Some(""), Some("The user said no")},
   error_uri : {Null, Some("https://provider.example/errors")},
   state : {Null, Some("")} \cup {Some(t) : t \in Tokens}]

Param(name, value) == IF value = Null THEN <<>> ELSE << <<name, Val(value)>> >>

\* new URLSearchParams(window.location.search) for the query q.
SearchParams(q) ==
  Param("error", q.error) \o Param("error_description", q.error_description)
  \o Param("error_uri", q.error_uri) \o Param("state", q.state)

PureUnchanged ==
  /\ UNCHANGED <<sessionStorage, outside, href, saved, superseded, consumed, linked>>
  /\ PageUnchanged

BuildAuthUrl(platform, config) ==
  /\ \E freshState \in FreshStateDraws(config),
        challenge \in CodeChallengeDraws(platform) :
       \E r \in {buildAuthUrl(platform, config, freshState, challenge)} :
         last' = Call("buildAuthUrl",
                      [platform |-> platform, config |-> config,
                       freshState |-> freshState, challenge |-> challenge],
                      r, Null)
  /\ PureUnchanged

GetErrorMessage(error) ==
  /\ last' = Call("getErrorMessage", error, [message |-> getErrorMessage(error)], Null)
  /\ PureUnchanged

ParseError(q) ==
  /\ last' = Call("parseError", q, [error |-> parseError(SearchParams(q))], Null)
  /\ PureUnchanged

GenerateState(r1, r2) ==
  /\ last' = Call("generateState", [random |-> <<r1, r2>>], [token |-> generateStateOf(r1, r2)], Null)
  /\ PureUnchanged

(***************************************************************************)
(* The composer page.                                                      *)
(***************************************************************************)
\* Texts typed into the textarea: empty, blank, and lengths on both sides of
\* every limit.
TextInputs ==
  {Text(0, 0), Text(3, 0), Text(12, 12), Text(280, 280), Text(281, 281),
   Text(2201, 2201), Text(3001, 3001), Text(5001, 5001), Text(63207, 63207)}

\* The lengths of the four entries of sampleContent.
SampleContent == {Text(178, 178), Text(169, 169), Text(184, 184)}

ComposerUnchanged ==
  /\ UNCHANGED <<sessionStorage, env, href, saved, superseded, consumed, linked,
                 queryCache, pending>>
  /\ PageUnchanged

TogglePlatform(platform) ==
  /\ composer' = [composer EXCEPT !.content = togglePlatform(@, platform)]
  /\ last' = Call("togglePlatform", Null, Null, Null)
  /\ ComposerUnchanged

\* onChange of the textarea.
ChangeText(text) ==
  /\ composer' = [composer EXCEPT !.content.text = text]
  /\ last' = Call("changeText", Null, Null, Null)
  /\ ComposerUnchanged

\* generateAIContent after its timer: one of the samples becomes the text.
GenerateAIContent(sample) ==
  /\ composer' = [composer EXCEPT !.content.text = sample]
  /\ last' = Call("generateAIContent", Null, Null, Null)
  /\ ComposerUnchanged

\* A click on "Publish Now": a disabled button dispatches no click.
ClickPublish ==
  /\ \E r \in {IF publishDisabled(composer) THEN [composer |-> composer, alert |-> Null]
                ELSE handlePublish(composer)} :
       /\ composer' = r.composer
       /\ last' = Call("clickPublish", [disabled |-> publishDisabled(composer)],
                       [alert |-> r.alert], Null)
  /\ ComposerUnchanged

\* handlePublish after its await: the success alert, the form reset and the
\* finally block.
PublishDone ==
  /\ composer.isPublishing
  /\ composer' = [content |-> EmptyContent, isPublishing |-> FALSE]
  /\ last' = Call("publishDone", [disabled |-> TRUE],
                  [alert |-> Some("Post published successfully!")], Null)
  /\ ComposerUnchanged

(***************************************************************************)
(* The optimistic create-scheduled-post mutation.                          *)
(***************************************************************************)
NumTempIds == 3
MaxCachedPosts == 3

\* `temp-${Date.now()}` at the successive calls of onMutate.
TempIds == {"temp-" \o ToString(i) : i \in 1..NumTempIds}

\* The lists of posts a server response puts in the cache entry.
ServerPosts == {<<>>, <<"post-1">>}

CacheUnchanged ==
  /\ UNCHANGED <<sessionStorage, env, href, saved, superseded, consumed, linked,
                 composer>>
  /\ PageUnchanged

\* Other code fills the cache entry with a server response.
SetQueryData(posts) ==
  /\ queryCache' = Some([data |-> posts, total |-> Len(posts), page |-> 1, limit |-> 10])
  /\ last' = Call("setQueryData", Null, Null, Null)
  /\ UNCHANGED pending
  /\ CacheUnchanged

\* mutate(newPost): onMutate runs.
OnMutate(optimisticPost) ==
  /\ \A c \in pending : c.id # optimisticPost
  /\ queryCache # Null =>
        /\ Len(Val(queryCache).data) < MaxCachedPosts
        /\ ~includes(Val(queryCache).data, optimisticPost)
  /\ \E r \in {onMutate(queryCache, optimisticPost)} :
       /\ queryCache' = r.cache
       /\ pending' = pending \cup {r.context}
       /\ last' = Call("onMutate", r.context, Null, Null)
  /\ CacheUnchanged

\* The request of a pending mutation fails: onError runs (onSettled only
\* marks the entry stale).
OnError(id) ==
  /\ \E context \in pending :
       /\ context.id = id
       /\ queryCache' = onError(queryCache, context)
       /\ pending' = pending \ {context}
       /\ last' = Call("onError", context, Null, Null)
  /\ CacheUnchanged

\* The request of a pending mutation succeeds: only onSettled runs.
OnSettled(id) ==
  /\ \E context \in pending :
       /\ context.id = id
       /\ pending' = pending \ {context}
       /\ last' = Call("onSettled", context, Null, Null)
  /\ UNCHANGED queryCache
  /\ CacheUnchanged

(***************************************************************************)
(* Spec: the Session State Store and handleCallback called directly by     *)
(* in-app code.                                                            *)
(* InitSpec: initiate calls, for every platform argument, with the         *)
(* validations that consume what they stored.                              *)
(* FlowSpec: executions made of initiate calls and callbacks.  The page    *)
(* treats the platform as an opaque string, so its initiate calls draw     *)
(* the platform from FlowPlatforms.                                        *)
(* UtilSpec: direct calls of buildAuthUrl, parseError, getErrorMessage     *)
(* and generateState, which read and write no state.                       *)
(* ComposerSpec: the composer page: platform toggles, text edits, publish. *)
(* CacheSpec: optimistic create-scheduled-post mutations and their         *)
(* outcomes.                                                               *)
(***************************************************************************)
Next ==
  \/ \E p \in PlatformInputs, s \in Tokens, r \in RedirectInputs : SaveState(p, s, r)
  \/ \E s \in StateInputs : ValidateState(s)
  \/ ClearState
  \/ \E c \in {"", "code1"}, s \in StateInputs : HandleCallback(c, s)

Spec == Init /\ [][Next]_vars

InitNext ==
  \/ \E p \in PlatformInputs, r \in RedirectInputs : InitiateFlow(p, r)
  \/ \E s \in StateInputs : ValidateState(s)
  \/ OpenApp

InitSpec == Init /\ [][InitNext]_vars

FlowPlatforms == {TWITTER, LINKEDIN, NotARealPlatform}

FlowNext ==
  \/ \E p \in FlowPlatforms, r \in RedirectInputs : InitiateFlow(p, r)
  \/ \E c \in CodeInputs, s \in {Null} \cup {Some(t) : t \in Tokens},
        e \in ErrorInputs : LoadCallback(c, s, e)
  \/ OpenApp
  \/ Effect
  \/ ConnectSuccess
  \/ \E m \in {Null, Some("Platform already connected")} : ConnectError(m)
  \/ RouterPush

FlowSpec == Init /\ [][FlowNext]_vars

UtilNext ==
  \/ \E p \in PlatformInputs, c \in ConfigInputs : BuildAuthUrl(p, c)
  \/ \E e \in OAuthErrorInputs : GetErrorMessage(e)
  \/ \E q \in QueryInputs : ParseError(q)
  \/ \E r1 \in randomToString36, r2 \in randomToString36 : GenerateState(r1, r2)

UtilSpec == Init /\ [][UtilNext]_vars

ComposerNext ==
  \/ \E p \in Platform : TogglePlatform(p)
  \/ \E t \in TextInputs : ChangeText(t)
  \/ \E t \in SampleContent : GenerateAIContent(t)
  \/ ClickPublish
  \/ PublishDone

ComposerSpec == Init /\ [][ComposerNext]_vars

CacheNext ==
  \/ \E posts \in ServerPosts : SetQueryData(posts)
  \/ \E id \in TempIds : OnMutate(id)
  \/ \E id \in TempIds : OnError(id)
  \/ \E id \in TempIds : OnSettled(id)

CacheSpec == Init /\ [][CacheNext]_vars

(***************************************************************************)
(* Properties.                                                             *)
(***************************************************************************)
\* C1 (FlowSpec): the page calls the account-linking collaborator only from an
\* execution of its effect whose callback state is the token of the stored,
\* unconsumed session; an execution that validates any other state (differing
\* from the stored token, replayed after consumption, or with no stored
\* session) makes no linking call and ends in the invalid-state error.
C1_LinkOnlyForStoredState ==
  last.op = "effect" =>
    LET state == get(href.params, "state")
        matches == last.pre # Null /\ state = Some(Val(last.pre).state)
    IN  /\ last.ret.request # Null => matches
        /\ (last.ret.validation # Null /\ ~matches) =>
             /\ last.ret.request = Null
             /\ status = "error"
             /\ message = InvalidStateError

\* A forged or replayed callback was rejected while a session was stored or
\* after it was consumed.
C1_Witness ==
  /\ last.op = "effect"
  /\ last.ret.validation # Null
  /\ ~Val(last.ret.validation).isValid
  /\ get(href.params, "state") \in {Some(t) : t \in consumed}
  /\ message = InvalidStateError

\* C2 (Spec): validate(s) called while the session of save(P, s, R) is the
\* unconsumed one (R a redirect target) returns {isValid: true, platform: P,
\* redirectTo: R}, whatever the store held before the save.
C2_RoundTrip ==
  (/\ last.op = "validateState"
   /\ last.pre # Null
   /\ Val(last.pre).state = last.args.state
   /\ Truthy(Val(last.pre).redirectTo))
  => last.ret = [isValid |-> TRUE, platform |-> Some(Val(last.pre).platform),
                 redirectTo |-> Val(last.pre).redirectTo]

\* The round trip succeeded for a save that replaced an earlier unconsumed session.
C2_Witness ==
  /\ last.op = "validateState"
  /\ last.ret.isValid
  /\ last.pre # Null
  /\ Truthy(Val(last.pre).redirectTo)
  /\ superseded # Null
  /\ superseded # Some(last.args.state)

\* C3 (Spec): a token that a validate accepted is rejected by every later
\* validate, until a save stores that token again.
C3_SingleUse ==
  [][(last'.op = "validateState" /\ last'.args.state \in consumed)
       => ~last'.ret.isValid]_vars

\* A consumed token was presented again and rejected.
C3_Witness ==
  /\ last.op = "validateState"
  /\ last.args.state \in consumed
  /\ ~last.ret.isValid

\* C4 (Spec), as stated: a validate with a token other than the stored one
\* returns isValid=false and carries neither platform nor redirectTo.
C4_MismatchRevealsNothing ==
  (/\ last.op = "validateState"
   /\ last.pre # Null
   /\ Val(last.pre).state # last.args.state)
  => /\ ~last.ret.isValid
     /\ last.ret.platform = Null
     /\ last.ret.redirectTo = Null

\* C5 (InitSpec), as stated: initiate with a platform that is not in the registry
\* fails, leaves the store as it was and does not navigate.
C5_UnknownPlatformPersistsNothing ==
  [][(last'.op = "initiateFlow" /\ last'.args.platform \notin DOMAIN OAUTH_CONFIGS)
       => /\ last'.ret.threw
          /\ sessionStorage' = sessionStorage
          /\ href' = href]_vars

\* C6 (InitSpec): an initiate that fails does not navigate, and initiate navigates
\* only when the platform is registered and has a client identifier; with an
\* unregistered platform or no client identifier it fails.
C6_NoNavigationOnLocalError ==
  [][last'.op = "initiateFlow" =>
       LET platform == last'.args.platform
           resolvable == /\ platform \in DOMAIN OAUTH_CONFIGS
                         /\ Truthy(env[platform])
       IN  /\ last'.ret.threw => href' = href
           /\ href' # href => resolvable
           /\ ~resolvable => last'.ret.threw]_vars

\* initiate failed for a registered platform without client identifier.
C6_Witness ==
  /\ last.op = "initiateFlow"
  /\ last.ret.threw
  /\ last.args.platform \in DOMAIN OAUTH_CONFIGS
  /\ href = AppUrl

\* C7 (Spec): the store is a single slot.  At most one token validates at any
\* time, and a validate made while a session is unconsumed is accepted exactly
\* when its token is that of the latest save, with the platform of that save.
C7_SingleSlot ==
  /\ Cardinality({t \in StateInputs : validateState(sessionStorage, t).ret.isValid}) <= 1
  /\ (last.op = "validateState" /\ last.pre # Null) =>
       /\ last.ret.isValid <=> last.args.state = Val(last.pre).state
       /\ last.ret.isValid => last.ret.platform = Some(Val(last.pre).platform)

\* The token of a session that a later save replaced was rejected.
C7_Witness ==
  /\ last.op = "validateState"
  /\ last.pre # Null
  /\ superseded = Some(last.args.state)
  /\ Val(last.pre).state # last.args.state
  /\ ~last.ret.isValid

\* C8 (Spec), as stated: an accepted validate returns the platform and the
\* redirect path of the save that stored the token (no redirectTo when that
\* save gave none).
C8_NeverPartiallyUpdated ==
  (last.op = "validateState" /\ last.ret.isValid) =>
    /\ last.pre # Null
    /\ last.ret.platform = Some(Val(last.pre).platform)
    /\ last.ret.redirectTo = Val(last.pre).redirectTo

\* C9 (Spec): a rejected validate leaves the store as it was, and the session
\* of save(P, s, R) stays retrievable: validate(s) on the store it leaves
\* returns {isValid: true, platform: P, redirectTo: R}.
C9_MismatchLeavesSession ==
  [][(last'.op = "validateState" /\ ~last'.ret.isValid) =>
       /\ sessionStorage' = sessionStorage
       /\ (saved # Null /\ Truthy(Val(saved).redirectTo)) =>
            validateState(sessionStorage', Val(saved).state).ret
              = [isValid |-> TRUE, platform |-> Some(Val(saved).platform),
                 redirectTo |-> Val(saved).redirectTo]]_vars

\* A validate with another token was rejected while a session was stored.
C9_Witness ==
  /\ last.op = "validateState"
  /\ ~last.ret.isValid
  /\ saved # Null
  /\ Truthy(Val(saved).redirectTo)
  /\ last.pre = saved
  /\ last.args.state # Val(saved).state
  /\ sessionStorage[STATE_KEY] = Some(Val(saved).state)

\* C10 (Spec): clear leaves the empty store from every store state, a second
\* clear (or a clear of the empty store) changes nothing, and no token
\* validates against a cleared store.
C10_ClearIdempotent ==
  /\ clearState(sessionStorage) = EmptyStorage
  /\ clearState(clearState(sessionStorage)) = clearState(sessionStorage)
  /\ \A t \in StateInputs : ~validateState(clearState(sessionStorage), t).ret.isValid
  /\ last.op = "clearState" => sessionStorage = EmptyStorage

\* clear was called on a store that held an unconsumed session.
C10_Witness ==
  /\ last.op = "clearState"
  /\ last.pre # Null
  /\ sessionStorage = EmptyStorage

\* C11 (Spec): with no active session (initially, after clear, after an accepted
\* validate) validate(t) returns a result with isValid=false for every token t
\* and the store stays empty.
C11_ValidateWithoutSession ==
  [][(last'.op = "validateState" /\ saved = Null) =>
       /\ ~last'.ret.isValid
       /\ sessionStorage = EmptyStorage
       /\ sessionStorage' = EmptyStorage]_vars

\* The empty token was presented to a store that holds no session, and rejected.
C11_Witness ==
  /\ last.op = "validateState"
  /\ last.pre = Null
  /\ last.args.state = ""
  /\ ~last.ret.isValid
  /\ sessionStorage = EmptyStorage

\* C12 (Spec): handleCallback with an empty code returns, as a value, the
\* missing-code failure when the state is the stored token and the
\* invalid-state failure when it is not.
C12_MissingCode ==
  (last.op = "handleCallback" /\ last.args.code = "") =>
    LET matches == last.pre # Null /\ Val(last.pre).state = last.args.state
    IN  last.ret = [success |-> FALSE, platform |-> Null, redirectTo |-> Null,
                    error |-> IF matches THEN Some(MissingCodeError)
                              ELSE Some(InvalidStateError)]

\* An empty code arrived with the stored token.
C12_Witness ==
  /\ last.op = "handleCallback"
  /\ last.args.code = ""
  /\ last.pre # Null
  /\ Val(last.pre).state = last.args.state
  /\ last.ret.error = Some(MissingCodeError)

\* C13 (Spec), as stated: handleCallback with a non-empty code and the stored
\* token returns success with the platform and the redirectTo passed to the
\* save that stored the token.
C13_CallbackReturnsSavedSession ==
  (/\ last.op = "handleCallback"
   /\ last.args.code # ""
   /\ last.pre # Null
   /\ Val(last.pre).state = last.args.state)
  => last.ret = [success |-> TRUE, platform |-> Some(Val(last.pre).platform),
                 redirectTo |-> Val(last.pre).redirectTo, error |-> Null]

\* C14 (InitSpec): after a successful initiate(P, R), R a redirect target, the
\* store holds exactly {platform: P, state: s, redirectTo: R} and the URL the
\* browser was sent to is the endpoint of P with state = s, response_type=code,
\* redirect_uri = origin + "/auth/callback", the default scopes of P and, for
\* twitter, the PKCE parameters; a callback echoing the URL's state validates.
C14_InitiateStoresAndNavigates ==
  (last.op = "initiateFlow" /\ ~last.ret.threw /\ Truthy(last.args.redirectTo)) =>
    LET P == last.args.platform
        s == get(href.params, "state")
    IN  /\ s # Null
        /\ sessionStorage[STATE_KEY] = s
        /\ sessionStorage[PLATFORM_KEY] = Some(P)
        /\ sessionStorage[REDIRECT_KEY] = last.args.redirectTo
        /\ href.base = OAUTH_CONFIGS[P].authUrl
        /\ get(href.params, "response_type") = Some("code")
        /\ get(href.params, "redirect_uri") = Some(Origin \o "/auth/callback")
        /\ get(href.params, "scope") = Some(join(OAUTH_CONFIGS[P].scope, " "))
        /\ P = TWITTER =>
             /\ get(href.params, "code_challenge") \in
                  {Some(c) : c \in generateCodeChallenge}
             /\ get(href.params, "code_challenge_method") = Some("S256")
        /\ validateState(sessionStorage, Val(s)).ret
             = [isValid |-> TRUE, platform |-> Some(P),
                redirectTo |-> last.args.redirectTo]

\* initiate("twitter", R) succeeded over an earlier unconsumed session.
C14_Witness ==
  /\ last.op = "initiateFlow"
  /\ ~last.ret.threw
  /\ last.args.platform = TWITTER
  /\ Truthy(last.args.redirectTo)
  /\ superseded # Null
  /\ href.base = OAUTH_CONFIGS[TWITTER].authUrl

\* C15 (UtilSpec): the URL buildAuthUrl returns for twitter carries both
\* code_challenge and code_challenge_method=S256; the URL it returns for each
\* of facebook, instagram, linkedin, tiktok and youtube carries neither.
C15_PkceOnlyForTwitter ==
  (last.op = "buildAuthUrl" /\ ~last.ret.threw) =>
    LET params == last.ret.url.params
        names == {params[i][1] : i \in DOMAIN params}
    IN  IF last.args.platform = TWITTER
          THEN /\ last.args.challenge \in generateCodeChallenge
               /\ get(params, "code_challenge") = Some(last.args.challenge)
               /\ get(params, "code_challenge_method") = Some("S256")
          ELSE /\ last.args.platform \in {FACEBOOK, INSTAGRAM, LINKEDIN, TIKTOK, YOUTUBE}
               /\ "code_challenge" \notin names
               /\ "code_challenge_method" \notin names

\* buildAuthUrl was called for twitter and returned a URL with a challenge.
C15_Witness ==
  /\ last.op = "buildAuthUrl"
  /\ last.args.platform = TWITTER
  /\ ~last.ret.threw
  /\ get(last.ret.url.params, "code_challenge") # Null

C17_TokenAtLeast36Chars ==
  last.op = "generateState" => Len(last.ret.token) >= 36

\* C18 (UtilSpec), as stated: getErrorMessage returns the fixed sentence for
\* each of the seven codes whatever the description; for every other code it
\* returns the provider's description when present and the generic sentence
\* otherwise.
C18_DescribeFixedOrFallback ==
  last.op = "getErrorMessage" =>
    LET code == last.args.error
        description == last.args.error_description
    IN  /\ code = "access_denied" =>
             last.ret.message = "You denied access to your account. Please try again if you want to connect this platform."
        /\ code \in {"access_denied", "invalid_request", "unauthorized_client",
                     "unsupported_response_type", "invalid_scope", "server_error",
                     "temporarily_unavailable"}
             => last.ret.message = errorMessages[code]
        /\ code \notin {"access_denied", "invalid_request", "unauthorized_client",
                        "unsupported_response_type", "invalid_scope", "server_error",
                        "temporarily_unavailable"}
             => last.ret.message = IF description # Null THEN Val(description)
                           ELSE "An unknown error occurred during authorization."

\* C19 (UtilSpec): parseError returns nothing exactly when the query carries
\* no non-empty error parameter; otherwise the error it returns has the
\* query's error, error_description and state (absent or empty: undefined);
\* the call changes no state.
C19_ParseError ==
  [][last'.op = "parseError" =>
       LET q == last'.args
           given(o) == o # Null /\ Val(o) # ""
           copied(o) == IF given(o) THEN o ELSE Null
       IN  /\ (last'.ret.error = Null) <=> ~given(q.error)
           /\ given(q.error) =>
                /\ Val(last'.ret.error).error = Val(q.error)
                /\ Val(last'.ret.error).error_description = copied(q.error_description)
                /\ Val(last'.ret.error).state = copied(q.state)
           /\ UNCHANGED <<sessionStorage, env, href, status, message, pagePlatform,
                          mutation, redirectTimer>>]_vars

\* parseError was given a query with an error, a description and a state.
C19_Witness ==
  /\ last.op = "parseError"
  /\ last.args.error = Some("access_denied")
  /\ last.args.error_description = Some("The user said no")
  /\ last.args.state \in {Some(t) : t \in Tokens}
  /\ last.ret.error # Null

\* C20 (FlowSpec), as stated: after handleCallback succeeds the page calls the
\* collaborator with the validated platform, the callback's code and
\* origin + "/auth/callback"; when the collaborator confirms the page is in
\* status 'success' and then navigates to the connections view; when it
\* reports failure the page ends in status 'error' showing the collaborator's
\* error message.
C20_LinkingOutcome ==
  /\ (last.op = "effect" /\ last.ret.validation # Null /\ last.pre # Null
        /\ Val(last.ret.validation).isValid /\ get(href.params, "code") # Null)
       => last.ret.request = Some([platform |-> Val(last.pre).platform,
                                   authorization_code |-> Val(get(href.params, "code")),
                                   redirect_uri |-> Origin \o "/auth/callback"])
  /\ last.op = "connectSuccess" => status = "success" /\ redirectTimer
  /\ last.op = "routerPush" => href = AppUrl
  /\ last.op = "connectError" => status = "error" /\ message = last.ret.onError

\* C21 (ComposerSpec): the remaining-character count shown is L minus the
\* length of the text, L being the least limit of the selected platforms
\* (twitter 280, facebook 63206, instagram 2200, linkedin 3000, tiktok 2200,
\* youtube 5000) and 280 when none is selected, after any sequence of toggles
\* and edits; the over-limit flag is set exactly when the count is negative.
C21_RemainingCharacters ==
  LET content == composer.content
      limit == [twitter |-> 280, facebook |-> 63206, instagram |-> 2200,
                linkedin |-> 3000, tiktok |-> 2200, youtube |-> 5000]
      selected == {content.platforms[i] : i \in DOMAIN content.platforms}
      L == IF selected = {} THEN 280
           ELSE CHOOSE m \in {limit[p] : p \in selected} :
                  \A p \in selected : m <= limit[p]
  IN  /\ selected \subseteq DOMAIN limit
      /\ Cardinality(selected) = Len(content.platforms)
      /\ remainingChars(content) = L - content.text.length
      /\ isOverLimit(content) <=> (L - content.text.length < 0)

\* facebook and twitter are selected, in that order, and the text is one
\* character over twitter's limit.
C21_Witness ==
  /\ composer.content.platforms = <<FACEBOOK, TWITTER>>
  /\ composer.content.text.length = 281
  /\ isOverLimit(composer.content)
  /\ remainingChars(composer.content) = 0 - 1

\* C22 (ComposerSpec), as stated: an attempt to publish while the text is
\* blank or no platform is selected starts no publish, leaves the form as it
\* is, and presents a validation message asking the user to add content.
C22_BlankPublishShowsValidation ==
  [][(/\ last'.op = "clickPublish"
      /\ \/ composer.content.text.trimmed = 0
         \/ Len(composer.content.platforms) = 0)
     => /\ composer'.isPublishing = composer.isPublishing
        /\ composer'.content = composer.content
        /\ last'.ret.alert \in {Some("Please enter some content."),
                                Some("Please add content")}]_vars

\* C23 (InitSpec), as stated: initiate resolves the client identifier before
\* it saves the session, so when none is configured for the platform it fails
\* without having saved a session, and a session stored before is still
\* retrievable.
C23_MissingClientSavesNothing ==
  [][(/\ last'.op = "initiateFlow"
      /\ last'.ret.threw
      /\ last'.ret.error =
           "Client ID not configured for platform: " \o last'.args.platform)
     => /\ sessionStorage' = sessionStorage
        /\ saved' = saved]_vars

\* C24 (UtilSpec), as stated: beyond the five base parameters, facebook and
\* instagram get display=popup, youtube gets access_type=offline and
\* prompt=consent, twitter gets the two PKCE parameters, linkedin and tiktok
\* get nothing, and no provider gets another provider's parameter.
C24_ProviderAugmentation ==
  (last.op = "buildAuthUrl" /\ ~last.ret.threw) =>
    LET params == last.ret.url.params
        platform == last.args.platform
        extras == {params[i] : i \in 6..Len(params)}
        expected ==
          CASE platform \in {FACEBOOK, INSTAGRAM} -> {<<"display", "popup">>}
            [] platform = YOUTUBE ->
                 {<<"access_type", "offline">>, <<"prompt", "consent">>}
            [] platform = TWITTER ->
                 {<<"code_challenge_method", "S256">>,
                  <<"code_challenge", last.args.challenge>>}
            [] platform \in {LINKEDIN, TIKTOK} -> {}
    IN  /\ {params[i][1] : i \in 1..5} =
             {"client_id", "redirect_uri", "scope", "response_type", "state"}
        /\ extras = expected
        /\ Len(params) = 5 + Cardinality(expected)

\* C26 (UtilSpec), as stated: in the query string buildAuthUrl builds every
\* parameter name occurs exactly once, for each of the six platforms.
C26_ParameterNamesUnique ==
  (last.op = "buildAuthUrl" /\ ~last.ret.threw) =>
    LET params == last.ret.url.params
    IN  \A i, j \in DOMAIN params : params[i][1] = params[j][1] => i = j

\* C25 (CacheSpec), as stated: when the optimistic mutation fails, its error
\* handler puts the cache entry back to the value it had just before the
\* optimistic insert, for every prior value including an absent one, so the
\* temporary post is not in the cache once the handler has run.
C25_RollbackOnError ==
  [][last'.op = "onError" =>
       /\ queryCache' = last'.args.previousPosts
       /\ queryCache' # Null => ~includes(Val(queryCache').data, last'.args.id)]_vars

\* C27 (Spec): handleCallback("", s) with s the stored token consumes the
\* session: the store is empty afterwards and handleCallback(code, s) with a
\* non-empty code then returns the invalid-state failure.
C27_EmptyCodeConsumesSession ==
  [][(/\ last'.op = "handleCallback"
      /\ last'.args.code = ""
      /\ saved # Null
      /\ Val(saved).state = last'.args.state)
     => /\ sessionStorage' = EmptyStorage
        /\ saved' = Null
        /\ handleCallback(sessionStorage', "code1", last'.args.state).ret
             = [success |-> FALSE, platform |-> Null, redirectTo |-> Null,
                error |-> Some(InvalidStateError)]]_vars

\* handleCallback("", s) was called with the stored token s and emptied the
\* store.
C27_Witness ==
  /\ last.op = "handleCallback"
  /\ last.args.code = ""
  /\ last.pre # Null
  /\ Val(last.pre).state = last.args.state
  /\ last.args.state \in consumed
  /\ sessionStorage = EmptyStorage

\* C28 (FlowSpec): an execution of the page's effect on a callback URL that
\* carries a provider error ends in status 'error' with the translated
\* message, validates no state, issues no linking request (even with a code
\* and the stored state in the URL) and leaves the Session State Store as it
\* was.
C28_ProviderErrorFirst ==
  [][(last'.op = "effect" /\ Truthy(get(href.params, "error")))
     => /\ status' = "error"
        /\ message' = getErrorMessage(
                        [error |-> Val(get(href.params, "error")),
                         error_description |-> get(href.params, "error_description")])
        /\ get(href.params, "error") = Some("access_denied") =>
             message' = "You denied access to your account. Please try again if you want to connect this platform."
        /\ last'.ret.validation = Null
        /\ last'.ret.request = Null
        /\ mutation' = Null
        /\ linked' = linked
        /\ sessionStorage' = sessionStorage
        /\ saved' = saved]_vars

\* The effect ran on a callback URL with a provider error, a code and the
\* token of the stored session, which is still stored.
C28_Witness ==
  /\ last.op = "effect"
  /\ Truthy(get(href.params, "error"))
  /\ get(href.params, "code") # Null
  /\ saved # Null
  /\ get(href.params, "state") = Some(Val(saved).state)
  /\ sessionStorage[STATE_KEY] = get(href.params, "state")
  /\ status = "error"

\* C29 (FlowSpec): for each saved session the page issues at most one linking
\* request, however often its effect executes: the execution that validates
\* the state consumes the session, and every later execution fails the state
\* validation and issues no request.
C29_AtMostOneLink ==
  /\ linked <= 1
  /\ linked = 1 => saved = Null
  /\ (last.op = "effect" /\ last.pre = Null /\ last.ret.validation # Null) =>
       /\ ~Val(last.ret.validation).isValid
       /\ last.ret.request = Null

\* The effect executed again while the linking request of its first
\* execution was in flight, and was rejected.
C29_Witness ==
  /\ last.op = "effect"
  /\ linked = 1
  /\ mutation # Null
  /\ last.ret.validation # Null
  /\ last.ret.request = Null
  /\ status = "error"

\* C30 (FlowSpec), as stated: once the collaborator has confirmed and the
\* page has reached status 'success', its status is never 'error' while the
\* page stays on the callback URL, whatever re-executions of the effect
\* follow.
C30_SuccessIsStable ==
  [][(status = "success" /\ href' = href) => status' # "error"]_vars

====
